---------------------------- MODULE Spec2Model ----------------------------
(***************************************************************************)
(* Model of modules/longhurst.py: the module-level load of the Longhurst   *)
(* province shapefile and of the province metadata table, and the two      *)
(* query functions find_longhurst(x, y, out) and longhurst_meta(prov).     *)
(*                                                                         *)
(* Python values are tagged records, sequences are 1-based here while the  *)
(* loop variable i keeps the 0-based value it has in the code.             *)
(***************************************************************************)
EXTENDS Integers, Sequences, FiniteSets, TLC

(***************************************************************************)
(* Bounds of the model.                                                    *)
(***************************************************************************)
MaxProv == 2      \* longest shapefile (number of shapes/records) explored
MaxRows == 2      \* longest metadata table explored

XCoords == 0 .. 3 \* longitudes of the grid of query points and vertices
YCoords == 0 .. 2 \* latitudes of the grid of query points and vertices

(***************************************************************************)
(* Python values handed to the functions.                                  *)
(***************************************************************************)
PyNum(n) == [t |-> "num", n |-> n, s |-> <<>>]
PyStr(s) == [t |-> "str", n |-> 0, s |-> s]
PyNone == [t |-> "None", n |-> 0, s |-> <<>>]

Digits == <<"0", "1", "2", "3", "4", "5", "6", "7", "8", "9">>

DigitVal(c) == (CHOOSE d \in 1 .. Len(Digits) : Digits[d] = c) - 1

IsDigit(c) == \E d \in 1 .. Len(Digits) : Digits[d] = c

RECURSIVE ParseDigits(_)
ParseDigits(s) ==
    IF s = <<>> THEN 0
    ELSE 10 * ParseDigits(SubSeq(s, 1, Len(s) - 1)) + DigitVal(s[Len(s)])

\* float(v): a number converts to itself, a string of decimal digits to its
\* value, any other string raises ValueError and None raises TypeError.
Float(v) ==
    CASE v.t = "num" -> [ok |-> TRUE, v |-> v.n, exc |-> "none"]
      [] v.t = "str" ->
            IF v.s # <<>> /\ \A k \in 1 .. Len(v.s) : IsDigit(v.s[k])
            THEN [ok |-> TRUE, v |-> ParseDigits(v.s), exc |-> "none"]
            ELSE [ok |-> FALSE, v |-> 0, exc |-> "ValueError"]
      [] OTHER -> [ok |-> FALSE, v |-> 0, exc |-> "TypeError"]

(***************************************************************************)
(* The external data: polygons, their records, and the metadata rows.      *)
(***************************************************************************)
\* Province polygons: axis-parallel rectangles with vertices on the grid.
Polygons ==
    { [x1 |-> a, y1 |-> b, x2 |-> c, y2 |-> d] :
        <<a, b, c, d>> \in
          { q \in XCoords \X YCoords \X XCoords \X YCoords :
              q[3] - q[1] >= 2 /\ q[4] - q[2] >= 2 } }

\* Point(scoords).within(shape(bshp)): the point lies in the interior of the
\* polygon; a point of the polygon's boundary is not within it.
Within(px, py, bshp) ==
    /\ bshp.x1 < px /\ px < bshp.x2
    /\ bshp.y1 < py /\ py < bshp.y2

\* The point lies on the ring of the polygon.
OnBoundary(px, py, bshp) ==
    /\ bshp.x1 <= px /\ px <= bshp.x2
    /\ bshp.y1 <= py /\ py <= bshp.y2
    /\ ~Within(px, py, bshp)

\* Records of the shapefile, record k describing shape k: <<code, name>>.
ProvinceRecords ==
    << <<"BPLR", "Polar - Boreal Polar Province (POLR)">>,
       <<"ARCT", "Polar - Atlantic Arctic Province">>,
       <<"SARC", "Polar - Atlantic Subarctic Province">>,
       <<"NADR", "Westerlies - N. Atlantic Drift Province (WWDR)">>,
       <<"GFST", "Westerlies - Gulf Stream Province">> >>

\* A shapefile: n shapes and the n records that describe them.
Shapefiles ==
    UNION { { [shapes |-> shp, records |-> SubSeq(ProvinceRecords, 1, n)] :
                shp \in [1 .. n -> Polygons] } :
            n \in 0 .. MaxProv }

MetaRows ==
    { [PROVCODE |-> "BPLR", PROVDESCR |-> "Boreal Polar Province", Biome |-> "P"],
      [PROVCODE |-> "ARCT", PROVDESCR |-> "Atlantic Arctic Province", Biome |-> "P"] }

Columns == {"PROVCODE", "PROVDESCR", "Biome"}

\* The tables read_csv can return: any rows in any order, codes not checked.
MetaTables == UNION { [1 .. n -> MetaRows] : n \in 0 .. MaxRows }

NOT_IN_PROV ==
    [code |-> "NOT_IN_PROV",
     name |-> "Point not in Longhurst province. Likely land, or unassigned area close to Antarctica."]

(***************************************************************************)
(* Arguments the callers pass.                                             *)
(***************************************************************************)
XArgs == { PyNum(n) : n \in XCoords } \cup { PyStr(<<"2">>), PyStr(<<"a", "b">>), PyNone }
YArgs == { PyNum(n) : n \in YCoords } \cup { PyStr(<<"1", "x">>) }
OutArgs == {"code", "name", "both"}
ProvArgs == {"None", "BPLR", "ARCT", "ZZZZ"}

VARIABLES
    ipc,        \* position of the module-level code (import of the module)
    globals,    \* names bound in the module's namespace
    shapes,     \* module global shapes
    records,    \* module global records
    lmeta,      \* module global lmeta
    fn,         \* function of the current or last call
    pc,         \* position in that call
    args,       \* arguments of that call
    loc,        \* locals of find_longhurst: x, y, i, is_in_poly
    tests,      \* indices i on which the containment test ran in that call
    ret,        \* value returned by that call
    exc,        \* exception that ended that call or the import
    loaded      \* what the two loads produced (history)

vars == <<ipc, globals, shapes, records, lmeta, fn, pc, args, loc, tests, ret, exc, loaded>>

store == <<shapes, records, lmeta>>
frame == <<fn, pc, args, loc, tests, ret>>

NoArgs == [x |-> PyNone, y |-> PyNone, out |-> "code", prov |-> "None"]
NoLoc == [x |-> 0, y |-> 0, i |-> -1, is_in_poly |-> FALSE]
NoRet == [t |-> "none"]

Init ==
    /\ ipc = "read_shapefile"
    /\ globals = {}
    /\ shapes = <<>>
    /\ records = <<>>
    /\ lmeta = <<>>
    /\ fn = "none"
    /\ pc = "idle"
    /\ args = NoArgs
    /\ loc = NoLoc
    /\ tests = <<>>
    /\ ret = NoRet
    /\ exc = "none"
    /\ loaded = [shapes |-> <<>>, records |-> <<>>, lmeta |-> <<>>]


(***************************************************************************)
(* Module-level code: the two loads, then the function definitions.        *)
(***************************************************************************)
\* sf = shapefile.Reader(fpath) inside try/except Exception: on any failure a
\* message is printed and execution goes on with sf unbound.
ReadShapefile ==
    /\ ipc = "read_shapefile"
    /\ \E outcome \in {"opened", "Unable to open", "other error"} :
         globals' = IF outcome = "opened" THEN globals \cup {"sf"} ELSE globals
    /\ ipc' = "read_geometry"
    /\ UNCHANGED <<store, frame, exc, loaded>>

\* shapes = sf.shapes(); records = sf.records(): a NameError when sf is
\* unbound, which ends the import.
ReadGeometry ==
    /\ ipc = "read_geometry"
    /\ IF "sf" \in globals
       THEN \E f \in Shapefiles :
              /\ shapes' = f.shapes
              /\ records' = f.records
              /\ globals' = globals \cup {"shapes", "records"}
              /\ loaded' = [loaded EXCEPT !.shapes = f.shapes, !.records = f.records]
              /\ ipc' = "read_metadata"
              /\ exc' = exc
       ELSE /\ ipc' = "failed"
            /\ exc' = "NameError"
            /\ UNCHANGED <<shapes, records, globals, loaded>>
    /\ UNCHANGED <<lmeta, frame>>

\* lmeta = read_csv(fpath, sep=';', header=0) inside try/except
\* FileNotFoundError: a missing file prints a message and execution goes on
\* with lmeta unbound; any other exception ends the import.
ReadMetadata ==
    /\ ipc = "read_metadata"
    /\ \/ \E t \in MetaTables :
            /\ lmeta' = t
            /\ globals' = globals \cup {"lmeta"}
            /\ loaded' = [loaded EXCEPT !.lmeta = t]
            /\ ipc' = "define_functions"
            /\ exc' = exc
       \/ /\ ipc' = "define_functions"
          /\ UNCHANGED <<lmeta, globals, loaded, exc>>
       \/ /\ ipc' = "failed"
          /\ exc' = "ParserError"
          /\ UNCHANGED <<lmeta, globals, loaded>>
    /\ UNCHANGED <<shapes, records, frame>>

\* def find_longhurst ... def longhurst_meta ...: the end of the import.
DefineFunctions ==
    /\ ipc = "define_functions"
    /\ globals' = globals \cup {"find_longhurst", "longhurst_meta"}
    /\ ipc' = "done"
    /\ UNCHANGED <<store, frame, exc, loaded>>

\* A caller can call a function of the module once the import has returned.
Callable(f) == ipc = "done" /\ f \in globals /\ pc \in {"idle", "returned", "raised"}

(***************************************************************************)
(* find_longhurst(x, y, out)                                               *)
(***************************************************************************)
\* x = float(x); y = float(y); is_in_poly = False
find_longhurst_enter(x, y, out) ==
    /\ Callable("find_longhurst")
    /\ fn' = "find_longhurst"
    /\ args' = [NoArgs EXCEPT !.x = x, !.y = y, !.out = out]
    /\ tests' = <<>>
    /\ ret' = NoRet
    /\ LET fx == Float(x)
           fy == Float(y)
       IN  IF ~fx.ok
           THEN pc' = "raised" /\ exc' = fx.exc /\ loc' = NoLoc
           ELSE IF ~fy.ok
           THEN pc' = "raised" /\ exc' = fy.exc /\ loc' = [NoLoc EXCEPT !.x = fx.v]
           ELSE pc' = "for" /\ exc' = "none"
                /\ loc' = [NoLoc EXCEPT !.x = fx.v, !.y = fy.v]
    /\ UNCHANGED <<ipc, globals, store, loaded>>

\* The loop without its break: every shape is tested and is_in_poly is the
\* result of the last test.
find_longhurst_for_nobreak ==
    /\ pc = "for"
    /\ IF loc.i + 1 < Len(shapes)
       THEN LET i == loc.i + 1
                is_in_poly == Within(loc.x, loc.y, shapes[i + 1])
            IN  /\ loc' = [loc EXCEPT !.i = i, !.is_in_poly = is_in_poly]
                /\ tests' = Append(tests, i)
                /\ pc' = "for"
       ELSE /\ pc' = "select"
            /\ UNCHANGED <<loc, tests>>
    /\ UNCHANGED <<ipc, globals, store, loaded, fn, args, ret, exc>>

\* The loop over range(len(shapes) - 1): the last shape is never tested.
find_longhurst_for_short ==
    /\ pc = "for"
    /\ IF loc.i + 1 < Len(shapes) - 1
       THEN LET i == loc.i + 1
                is_in_poly == Within(loc.x, loc.y, shapes[i + 1])
            IN  /\ loc' = [loc EXCEPT !.i = i, !.is_in_poly = is_in_poly]
                /\ tests' = Append(tests, i)
                /\ pc' = IF is_in_poly THEN "select" ELSE "for"
       ELSE /\ pc' = "select"
            /\ UNCHANGED <<loc, tests>>
    /\ UNCHANGED <<ipc, globals, store, loaded, fn, args, ret, exc>>

\* One pass of `for i in range(len(shapes))`: the containment test on shape
\* i and the break, or the end of the range.
find_longhurst_for ==
    /\ pc = "for"
    /\ IF loc.i + 1 < Len(shapes)
       THEN LET i == loc.i + 1
                bshp == shapes[i + 1]
                is_in_poly == Within(loc.x, loc.y, bshp)
            IN  /\ loc' = [loc EXCEPT !.i = i, !.is_in_poly = is_in_poly]
                /\ tests' = Append(tests, i)
                /\ pc' = IF is_in_poly THEN "select" ELSE "for"
       ELSE /\ pc' = "select"
            /\ UNCHANGED <<loc, tests>>
    /\ UNCHANGED <<ipc, globals, store, loaded, fn, args, ret, exc>>

\* The return that takes record i whenever the loop has run (i is bound),
\* whether or not the last test succeeded.
find_longhurst_return_ranloop ==
    /\ pc = "select"
    /\ LET lp == IF loc.i >= 0
                 THEN [code |-> records[loc.i + 1][1], name |-> records[loc.i + 1][2]]
                 ELSE NOT_IN_PROV
       IN  IF args.out \in DOMAIN lp
           THEN pc' = "returned" /\ ret' = [t |-> "str", v |-> lp[args.out]] /\ exc' = exc
           ELSE pc' = "raised" /\ exc' = "KeyError" /\ ret' = ret
    /\ UNCHANGED <<ipc, globals, store, loaded, fn, args, loc, tests>>

\* The return with lp.get(out, lp['code']): an unknown selector gives the code.
find_longhurst_return_default ==
    /\ pc = "select"
    /\ LET lp == IF loc.is_in_poly
                 THEN [code |-> records[loc.i + 1][1], name |-> records[loc.i + 1][2]]
                 ELSE NOT_IN_PROV
       IN  /\ pc' = "returned"
           /\ ret' = [t |-> "str",
                      v |-> IF args.out \in DOMAIN lp THEN lp[args.out] ELSE lp.code]
           /\ exc' = exc
    /\ UNCHANGED <<ipc, globals, store, loaded, fn, args, loc, tests>>

\* The return whose 'name' is records[i - 1][1] (index -1 being the last record).
find_longhurst_return_mixed ==
    /\ pc = "select"
    /\ LET h == IF loc.i >= 1 THEN loc.i ELSE Len(records)
           lp == IF loc.is_in_poly
                 THEN [code |-> records[loc.i + 1][1], name |-> records[h][2]]
                 ELSE NOT_IN_PROV
       IN  IF args.out \in DOMAIN lp
           THEN pc' = "returned" /\ ret' = [t |-> "str", v |-> lp[args.out]] /\ exc' = exc
           ELSE pc' = "raised" /\ exc' = "KeyError" /\ ret' = ret
    /\ UNCHANGED <<ipc, globals, store, loaded, fn, args, loc, tests>>

\* lp = {...}; return(lp[out])
find_longhurst_return ==
    /\ pc = "select"
    /\ LET lp == IF loc.is_in_poly
                 THEN [code |-> records[loc.i + 1][1], name |-> records[loc.i + 1][2]]
                 ELSE NOT_IN_PROV
       IN  IF args.out \in DOMAIN lp
           THEN pc' = "returned" /\ ret' = [t |-> "str", v |-> lp[args.out]] /\ exc' = exc
           ELSE pc' = "raised" /\ exc' = "KeyError" /\ ret' = ret
    /\ UNCHANGED <<ipc, globals, store, loaded, fn, args, loc, tests>>

(***************************************************************************)
(* longhurst_meta(prov)                                                    *)
(***************************************************************************)
\* The selection with != in place of ==.
LocRows_other(table, prov) ==
    [ k \in { j \in 0 .. Len(table) - 1 : table[j + 1].PROVCODE # prov } |-> table[k + 1] ]

\* lmeta.loc[lmeta['PROVCODE']==prov, :]: the matching rows under their row
\* labels, which read_csv numbers from 0.
LocRows(table, prov) ==
    [ k \in { j \in 0 .. Len(table) - 1 : table[j + 1].PROVCODE = prov } |-> table[k + 1] ]

\* df.iloc[0] in place of df.squeeze(): always the first matching row.
Squeeze_first(df) ==
    [t |-> "Series", v |-> df[CHOOSE k \in DOMAIN df : \A j \in DOMAIN df : k <= j]]

\* df.squeeze(): a frame of one row (and several columns) becomes that row as
\* a Series; a frame of several rows stays a frame.
Squeeze(df) ==
    IF Cardinality(DOMAIN df) = 1
    THEN [t |-> "Series", v |-> df[CHOOSE k \in DOMAIN df : TRUE]]
    ELSE [t |-> "DataFrame", v |-> df]

\* .to_dict(): a Series gives {column: value}, a frame gives
\* {column: {row label: value}}.
ToDict(obj) ==
    IF obj.t = "Series"
    THEN [t |-> "dict", v |-> [c \in Columns |-> obj.v[c]]]
    ELSE [t |-> "dict of dict", v |-> [c \in Columns |-> [k \in DOMAIN obj.v |-> obj.v[k][c]]]]

\* longhurst_meta that keeps the selection in the global lmeta.
longhurst_meta_global(prov) ==
    /\ Callable("longhurst_meta")
    /\ fn' = "longhurst_meta"
    /\ args' = [NoArgs EXCEPT !.prov = prov]
    /\ loc' = NoLoc
    /\ tests' = <<>>
    /\ IF "lmeta" \notin globals
       THEN pc' = "raised" /\ exc' = "NameError" /\ ret' = NoRet /\ lmeta' = lmeta
       ELSE IF prov = "None"
       THEN pc' = "returned" /\ exc' = "none" /\ lmeta' = lmeta
            /\ ret' = [t |-> "DataFrame", v |-> lmeta]
       ELSE LET df == LocRows(lmeta, prov)
            IN  /\ lmeta' = SelectSeq(lmeta, LAMBDA r : r.PROVCODE = prov)
                /\ IF Cardinality(DOMAIN df) = 0
                   THEN pc' = "raised" /\ exc' = "ValueError" /\ ret' = NoRet
                   ELSE pc' = "returned" /\ exc' = "none" /\ ret' = ToDict(Squeeze(df))
    /\ UNCHANGED <<ipc, globals, shapes, records, loaded>>

longhurst_meta(prov) ==
    /\ Callable("longhurst_meta")
    /\ fn' = "longhurst_meta"
    /\ args' = [NoArgs EXCEPT !.prov = prov]
    /\ loc' = NoLoc
    /\ tests' = <<>>
    /\ IF "lmeta" \notin globals
       THEN pc' = "raised" /\ exc' = "NameError" /\ ret' = NoRet
       ELSE IF prov = "None"
       THEN pc' = "returned" /\ exc' = "none" /\ ret' = [t |-> "DataFrame", v |-> lmeta]
       ELSE LET df == LocRows(lmeta, prov)
            IN  IF Cardinality(DOMAIN df) = 0
                THEN pc' = "raised" /\ exc' = "ValueError" /\ ret' = NoRet
                ELSE pc' = "returned" /\ exc' = "none" /\ ret' = ToDict(Squeeze(df))
    /\ UNCHANGED <<ipc, globals, store, loaded>>

Next ==
    \/ ReadShapefile
    \/ ReadGeometry
    \/ ReadMetadata
    \/ DefineFunctions
    \/ \E x \in XArgs, y \in YArgs, out \in OutArgs : find_longhurst_enter(x, y, out)
    \/ find_longhurst_for
    \/ find_longhurst_return
    \/ \E prov \in ProvArgs : longhurst_meta(prov)

Spec == Init /\ [][Next]_vars

TypeOK ==
    /\ ipc \in {"read_shapefile", "read_geometry", "read_metadata", "define_functions", "done", "failed"}
    /\ pc \in {"idle", "for", "select", "returned", "raised"}
    /\ fn \in {"none", "find_longhurst", "longhurst_meta"}
    /\ Len(shapes) = Len(records)
    /\ loc.i \in -1 .. Len(shapes) - 1

(***************************************************************************)
(* Notions the properties are stated with.                                 *)
(***************************************************************************)
FindDone == fn = "find_longhurst" /\ pc \in {"returned", "raised"}
MetaDone == fn = "longhurst_meta" /\ pc \in {"returned", "raised"}

\* The coordinates of the current call are numbers, and the point they give.
Numeric == Float(args.x).ok /\ Float(args.y).ok
PX == Float(args.x).v
PY == Float(args.y).v
ValidOut == args.out \in {"code", "name"}

\* 0-based indices of the polygons of shp that have the point in their
\* interior, and of those that have it in their interior or on their boundary.
Containing(shp) == { k \in 0 .. Len(shp) - 1 : Within(PX, PY, shp[k + 1]) }
Covering(shp) ==
    { k \in 0 .. Len(shp) - 1 :
        Within(PX, PY, shp[k + 1]) \/ OnBoundary(PX, PY, shp[k + 1]) }
Least(S) == CHOOSE k \in S : \A j \in S : k <= j

\* Field of a record (code at 0, name at 1 in the code) selected by out.
FieldOf(rec, out) == IF out = "code" THEN rec[1] ELSE rec[2]

\* C1: when some polygon contains the point, the value returned is the
\* code/name of the record at the smallest index whose polygon contains it,
\* and of no other record.
C1_FirstMatch ==
    (FindDone /\ pc = "returned" /\ Containing(shapes) # {}) =>
        LET k == Least(Containing(shapes))
        IN  /\ ret.t = "str"
            /\ ret.v = FieldOf(records[k + 1], args.out)
            /\ \A j \in (0 .. Len(records) - 1) \ {k} :
                 ret.v \notin {records[j + 1][1], records[j + 1][2]}

C1_Witness ==
    /\ FindDone /\ pc = "returned"
    /\ Cardinality(Containing(shapes)) >= 2
    /\ ret.v = FieldOf(records[1], args.out)

\* C2: a point in the interior or on the boundary of a polygon is contained
\* in it: the value returned is that of the first polygon the point is in or
\* on, and it is not the sentinel when the point is on some boundary.
C2_BoundaryCounts ==
    (FindDone /\ pc = "returned" /\ Covering(shapes) # {}) =>
        /\ ret.v = FieldOf(records[Least(Covering(shapes)) + 1], args.out)
        /\ ret.v # NOT_IN_PROV[args.out]

InputError == {"ValueError", "TypeError", "KeyError"}

\* C4: find_longhurst raises, returning nothing, exactly when x or y does not
\* convert to a float or out is neither 'code' nor 'name', whether or not the
\* point is in a province; it returns a string otherwise.
C4_InputError ==
    FindDone =>
        /\ (pc = "raised") <=> (~Numeric \/ ~ValidOut)
        /\ pc = "raised" => (exc \in InputError /\ ret = NoRet)
        /\ pc = "returned" => (ret.t = "str" /\ exc = "none")

C4_Witness ==
    /\ FindDone /\ pc = "raised" /\ exc = "KeyError"
    /\ Numeric /\ Containing(shapes) # {}

\* The <<code, name>> pair that belongs to the point: the record paired with
\* the first shape that contains it, or the sentinel pair.
ResultPair ==
    IF Containing(shapes) = {}
    THEN <<NOT_IN_PROV.code, NOT_IN_PROV.name>>
    ELSE records[Least(Containing(shapes)) + 1]

\* C5: out='code' and out='name' project one pair that depends on the point
\* only: field 0 and field 1 of one record, or the two sentinel strings.
C5_Projections ==
    (FindDone /\ pc = "returned") =>
        /\ args.out = "code" => ret.v = ResultPair[1]
        /\ args.out = "name" => ret.v = ResultPair[2]
        /\ ResultPair \in {<<NOT_IN_PROV.code, NOT_IN_PROV.name>>}
                            \cup { records[j] : j \in 1 .. Len(records) }

C5_Witness ==
    /\ FindDone /\ pc = "returned" /\ args.out = "name"
    /\ Len(records) >= 2
    /\ ret.v = records[2][2]

\* Rows of the table whose PROVCODE is prov (1-based positions).
Matching(table, prov) == { j \in 1 .. Len(table) : table[j].PROVCODE = prov }
UniqueCodes(table) ==
    \A j, k \in 1 .. Len(table) : table[j].PROVCODE = table[k].PROVCODE => j = k

\* C6: on a loaded table with unique codes, longhurst_meta(code) returns the
\* one row whose PROVCODE is code as a flat {field: value} record, raises
\* ValueError("invalid province code") when no row has it, and returns the
\* whole table as loaded when no code is given.
C6_Metadata ==
    (MetaDone /\ "lmeta" \in globals /\ UniqueCodes(lmeta)) =>
        LET m == Matching(lmeta, args.prov)
        IN  /\ (args.prov # "None" /\ Cardinality(m) = 1) =>
                 /\ pc = "returned"
                 /\ ret.t = "dict"
                 /\ ret.v["PROVCODE"] = args.prov
                 /\ \A c \in Columns : \A j \in m : ret.v[c] = lmeta[j][c]
            /\ (args.prov # "None" /\ m = {}) =>
                 /\ pc = "raised"
                 /\ exc = "ValueError"
                 /\ ret = NoRet
            /\ args.prov = "None" =>
                 /\ pc = "returned"
                 /\ ret.t = "DataFrame"
                 /\ ret.v = loaded.lmeta

C6_Witness ==
    /\ MetaDone /\ pc = "returned" /\ ret.t = "dict"
    /\ Len(lmeta) = 2 /\ UniqueCodes(lmeta)
    /\ args.prov = lmeta[2].PROVCODE

\* C7: the functions are callable only when both loads have completed: the
\* shapefile's shapes and records and the metadata table are all bound.
C7_InitBeforeUse ==
    (ipc = "done" /\ globals \cap {"find_longhurst", "longhurst_meta"} # {}) =>
        {"sf", "shapes", "records", "lmeta"} \subseteq globals

\* What find_longhurst gives for the arguments of the current call on the
\* shapes and records in st.
Outcome(st) ==
    IF ~Float(args.x).ok THEN [pc |-> "raised", v |-> Float(args.x).exc]
    ELSE IF ~Float(args.y).ok THEN [pc |-> "raised", v |-> Float(args.y).exc]
    ELSE IF ~ValidOut THEN [pc |-> "raised", v |-> "KeyError"]
    ELSE IF Containing(st.shapes) = {}
    THEN [pc |-> "returned", v |-> NOT_IN_PROV[args.out]]
    ELSE [pc |-> "returned",
          v |-> FieldOf(st.records[Least(Containing(st.shapes)) + 1], args.out)]

\* C8: once the import is done the shapes, the records and the table are
\* those that were loaded, whatever calls have run, and what a
\* find_longhurst call gives is determined by its arguments and the data as
\* loaded (so equal arguments give equal results).
C8_ReadOnly ==
    ipc = "done" =>
        /\ shapes = loaded.shapes
        /\ records = loaded.records
        /\ lmeta = loaded.lmeta
        /\ FindDone =>
             /\ pc = Outcome(loaded).pc
             /\ pc = "returned" => ret.v = Outcome(loaded).v
             /\ pc = "raised" => exc = Outcome(loaded).v

C8_Witness ==
    /\ ipc = "done" /\ FindDone /\ pc = "returned"
    /\ Len(loaded.shapes) = 2 /\ Len(loaded.lmeta) = 2
    /\ Containing(loaded.shapes) = {1}

\* The scan of the current call is over.
ScanDone ==
    /\ fn = "find_longhurst"
    /\ pc = "select" \/ pc = "returned" \/ (pc = "raised" /\ exc = "KeyError")

\* C9: the containment test runs on indices 0, 1, 2, ... in order, never on
\* more than n of them; a finished scan has run it exactly k+1 times when the
\* first containing polygon is at index k, and exactly n times when none is.
C9_LinearScan ==
    /\ Len(tests) <= Len(shapes)
    /\ \A j \in 1 .. Len(tests) : tests[j] = j - 1
    /\ ScanDone =>
         Len(tests) = IF Containing(shapes) = {}
                      THEN Len(shapes)
                      ELSE Least(Containing(shapes)) + 1

C9_Witness ==
    /\ ScanDone /\ pc = "returned"
    /\ Len(shapes) = 2
    /\ Containing(shapes) = {0, 1}
    /\ tests = <<0>>

\* C10: when two or more rows have the requested code, longhurst_meta
\* returns without error a mapping from each field to a {row label: value}
\* mapping over all the matching rows, not a flat record.
C10_DuplicateCodes ==
    (MetaDone /\ "lmeta" \in globals /\ args.prov # "None"
       /\ Cardinality(Matching(lmeta, args.prov)) >= 2) =>
        /\ pc = "returned"
        /\ exc = "none"
        /\ ret.t = "dict of dict"
        /\ \A c \in Columns :
             /\ DOMAIN ret.v[c] = { j - 1 : j \in Matching(lmeta, args.prov) }
             /\ \A j \in Matching(lmeta, args.prov) : ret.v[c][j - 1] = lmeta[j][c]

C10_Witness ==
    /\ MetaDone /\ pc = "returned"
    /\ Cardinality(Matching(lmeta, args.prov)) >= 2
    /\ ret.t = "dict of dict"

=============================================================================
